---- MODULE Spec2Model ----
(***************************************************************************)
(* Playback engine (AudioManager), sample tap (SampleBroadcaster), the     *)
(* analysis worker thread and the analyzer (AudioProcessor) of the audio   *)
(* visualizer, as a state machine.                                         *)
(*                                                                         *)
(* Three execution contexts are interleaved: the control thread that owns  *)
(* the AudioManager, the output device's pull path that calls              *)
(* SampleBroadcaster::next, and the "audio-processor" worker threads.      *)
(***************************************************************************)
EXTENDS Integers, Sequences, FiniteSets, TLC

(* ------------------------------ bounds --------------------------------- *)

\* Thread/channel slots the model can hold at once (the code has no limit).
MaxWorkers == 2
\* Longest decoded source, in samples.
MaxSrcLen == 3
\* Number of volume steps that stand for the f32 value 1.0.
VolUnit == 2
\* Scaled stand-ins for DEFAULT_FFT_SIZE / SAMPLES_PER_CHUNK (1024), the
\* sample-chunk channel capacity (5) and the analysis channel capacity (10).
DEFAULT_FFT_SIZE == 2
ChunkChannelCap == 1
AnalysisChannelCap == 1

SAMPLES_PER_CHUNK == DEFAULT_FFT_SIZE

(* ------------------------------ values --------------------------------- *)

Slots == 1..MaxWorkers
\* Option<slot>: 0 is None.
NoSlot == 0

\* Option<T>: <<>> is None, <<x>> is Some(x).
None == <<>>
Some(x) == <<x>>

PlaybackState == {"Idle", "Loaded", "Playing", "Paused"}

\* File paths are strings over a blank and a letter.
Paths == { <<>>, <<" ", " ">>, <<"a">>, <<" ", "a", " ">> }

\* f32 volumes in steps of 1/VolUnit: below 0, in range and above 1.
VolumeInputs == (0 - 1)..(VolUnit + 1)

Channels == {1, 2}

(* --------------------------- pure functions ---------------------------- *)

\* Mutant of clamp: the upper limit is not applied.
clamp_NoUpper(v, lo, hi) == IF v < lo THEN lo ELSE v

\* f32::clamp(min, max) on ordered (non-NaN) values.
clamp(v, lo, hi) == IF v < lo THEN lo ELSE IF v > hi THEN hi ELSE v

\* Option::unwrap_or
unwrap_or(o, d) == IF o = None THEN d ELSE o[1]

IsWhitespace(c) == c = " "

RECURSIVE trim_start(_)
trim_start(s) ==
    IF s = <<>> THEN <<>>
    ELSE IF IsWhitespace(Head(s)) THEN trim_start(Tail(s)) ELSE s

RECURSIVE trim_end(_)
trim_end(s) ==
    IF s = <<>> THEN <<>>
    ELSE IF IsWhitespace(s[Len(s)]) THEN trim_end(SubSeq(s, 1, Len(s) - 1)) ELSE s

\* str::trim
trim(s) == trim_end(trim_start(s))

\* Mutant of PathRejected: the path is not trimmed before the test.
PathRejected_NoTrim(file_path) == file_path = <<>>

\* The path check at the head of load_and_play_file.
PathRejected(file_path) == trim(file_path) = <<>>

\* Mutant of step_by: every element is taken.
step_by_All(samples, n) == samples

\* samples.iter().step_by(n).cloned().collect()
RECURSIVE step_by(_, _)
step_by(samples, n) ==
    IF samples = <<>> THEN <<>>
    ELSE <<Head(samples)>> \o
         step_by(SubSeq(samples, n + 1, Len(samples)), n)

\* What the worker hands to process_samples for a received chunk
\* (None when it hands over nothing).
WorkerInput(samples, source_channels) ==
    IF source_channels = 1 THEN Some(samples)
    ELSE IF source_channels > 1 /\ samples # <<>>
         THEN Some(step_by(samples, source_channels))
         ELSE None

(* ------------------------------- state --------------------------------- *)

VARIABLES
    \* AudioManager fields
    state, sink, processing_thread_handle, stop_signal_sender,
    current_file_path, current_volume,
    \* the rodio Sink held in `sink`
    sinkPaused, sinkVolume, sinkEmpty,
    \* control thread: position, the call in progress, the last return
    cpc, call, ret,
    \* per slot: worker thread, stop channel, sample-chunk channel
    wpc, stopMsgs, chunkQ,
    \* per slot: SampleBroadcaster (alive, source, position, buffer and its
    \* capacity)
    tapAlive, srcLen, source_channels, tapPos, buffer, capacity,
    \* per slot: AudioProcessor carry-over buffer of the worker
    sample_buffer,
    \* analysis-result channel owned by the caller
    resultQ, resultRxAlive,
    \* an AudioProcessor driven on its own: its size and what it was given
    analyzer,
    \* per slot: what SampleBroadcaster::next has returned so far
    forwarded

engineVars == <<state, sink, processing_thread_handle, stop_signal_sender,
                current_file_path, current_volume>>
sinkVars == <<sinkPaused, sinkVolume, sinkEmpty>>
ctlVars == <<cpc, call, ret>>
workerVars == <<wpc, stopMsgs, chunkQ, sample_buffer>>
tapVars == <<tapAlive, srcLen, source_channels, tapPos, buffer, capacity,
             forwarded>>
resultVars == <<resultQ, resultRxAlive>>

vars == <<engineVars, sinkVars, ctlVars, workerVars, tapVars, resultVars,
          analyzer>>

\* The call in progress on the control thread: operation, path argument
\* and the PlaybackState at entry.
NoCall == [op |-> "none", path |-> <<>>, pre |-> "Idle"]

\* The last return on the control thread: operation, result, path and volume
\* arguments, and the PlaybackState at entry.
Return(op, result, path, pre) ==
    [op |-> op, result |-> result, path |-> path, pre |-> pre,
     volume |-> None]

NoRet == Return("new", "ok", <<>>, "Idle")

\* A worker thread that has started and not yet left its closure.
WorkerRunning(s) == wpc[s] \in {"check", "recv"}

(* ----------------------------- AudioProcessor -------------------------- *)

\* let num_freq_bins = self.fft_size / 2 + 1
num_freq_bins_Half(fft_size) == fft_size \div 2

num_freq_bins(fft_size) == fft_size \div 2 + 1

\* Iterator::take(n): the first n elements, or all of them if fewer.
Take(seq, n) == SubSeq(seq, 1, IF n < Len(seq) THEN n ELSE Len(seq))

\* Mutant of drain: the whole buffer is cleared.
drain_All(seq, n) == <<>>

\* Vec::drain(0..n): the buffer without its first n elements.
drain(seq, n) == SubSeq(seq, n + 1, Len(seq))

\* Mutant of WindowReady: a window needs more than fft_size samples.
WindowReady_Strict(len, fft_size) == len > fft_size

\* self.sample_buffer.len() >= self.fft_size
WindowReady(len, fft_size) == len >= fft_size

\* Numbers. A sample (f32 in the code) is an integer; a Hann coefficient and
\* a windowed sample are counted in quarters; a root is the real number
\* sqrt(num / den), kept as the fraction in lowest terms. Rounding of f32
\* arithmetic is left out.
RECURSIVE GCD(_, _)
GCD(a, b) == IF b = 0 THEN a ELSE GCD(b, a % b)

\* f32::sqrt of the fraction num / den (num >= 0, den > 0)
sqrt(num, den) ==
    LET g == GCD(num, den) IN [sqrt_of |-> <<num \div g, den \div g>>]

\* Mutant of abs: the sign is kept.
abs_Signed(x) == x

\* f32::abs
abs(x) == IF x < 0 THEN 0 - x ELSE x

\* 2 * cos(2 * pi * m / n), for the n whose cosines are rational.
TwiceCos(m, n) ==
    LET r == m % n IN
    CASE n = 1 -> 2
      [] n = 2 -> IF r = 0 THEN 2 ELSE 0 - 2
      [] n = 3 -> IF r = 0 THEN 2 ELSE 0 - 1
      [] n = 4 -> CASE r = 0 -> 2 [] r = 2 -> 0 - 2 [] OTHER -> 0
      [] n = 6 -> CASE r = 0 -> 2 [] r = 3 -> 0 - 2
                    [] r \in {1, 5} -> 1 [] OTHER -> 0 - 1

\* hann_window(size), in quarters: 0.5 * (1 - cos(2 pi i / norm_factor))
\* with norm_factor = max(size - 1, 1), for i = 0 .. size - 1.
hann_window(size) ==
    LET norm_factor == IF size - 1 > 1 THEN size - 1 ELSE 1 IN
    [i \in 1..size |-> 2 - TwiceCos(i - 1, norm_factor)]

\* A buffer of complex numbers: the real numbers re (in quarters, imaginary
\* parts 0) if domain is "time", their forward DFT if domain is "freq".
\* vec![Complex::new(0.0, 0.0); fft_size]
ZeroBuffer(fft_size) == [domain |-> "time", re |-> [i \in 1..fft_size |-> 0]]

\* Twice the squared norm, in sixteenths, of element k (from 0) of a buffer.
RECURSIVE NormSum(_, _, _, _)
NormSum(re, k, a, b) ==
    IF a > Len(re) THEN 0
    ELSE IF b > Len(re) THEN NormSum(re, k, a + 1, 1)
    ELSE re[a] * re[b] * TwiceCos(k * (Len(re) + a - b), Len(re))
         + NormSum(re, k, a, b + 1)

TwiceNormSqr(buf, k) ==
    IF buf.domain = "time" THEN 2 * buf.re[k + 1] * buf.re[k + 1]
    ELSE NormSum(buf.re, k, 1, 1)

\* c.norm() / self.fft_size as f32, for element k of a buffer
Magnitude(buf, k, fft_size) ==
    sqrt(TwiceNormSqr(buf, k), 32 * fft_size * fft_size)

\* What fft.process_with_scratch(buffer, scratch) can leave in its scratch
\* argument. The transform is computed in place in buffer; the content of
\* scratch afterwards is not specified: an algorithm that needs no scratch
\* space leaves it as it was, one that computes out of place into the
\* scratch space and copies back leaves the transform in it.
ScratchOutcomes == {"unchanged", "transform"}

\* fft.process_with_scratch(&mut buffer, &mut scratch): both buffers after
\* the call.
process_with_scratch(buf, scratch, outcome) ==
    LET transform == [domain |-> "freq", re |-> buf.re] IN
    [buffer |-> transform,
     scratch |-> IF outcome = "transform" THEN transform ELSE scratch]

\* The loop over the first fft_size samples of the buffer, from index i on:
\* the windowed samples, the peak and the sum of squares.
RECURSIVE WindowLoop(_, _, _, _)
WindowLoop(samples, window, i, acc) ==
    IF i > Len(window) THEN acc
    ELSE LET sample == samples[i]
             abs_sample == abs(sample)
         IN WindowLoop(samples, window, i + 1,
               [fft_input |-> Append(acc.fft_input, sample * window[i]),
                peak_amplitude |-> IF abs_sample > acc.peak_amplitude
                                   THEN abs_sample ELSE acc.peak_amplitude,
                rms_sum_sq |-> acc.rms_sum_sq + sample * sample])

\* AudioProcessor::process_samples on an analyzer of the given size whose
\* carry-over buffer is carry and whose fft_output_buffer is out: the two
\* buffers left behind and the record returned (None if none). One window
\* is taken per call; the magnitudes are read from fft_output_buffer, which
\* is the scratch argument of the transform. The result of the loop and the
\* buffers after the transform are each bound once, as loop and fft.
process_samples(carry, new_samples, fft_size, out, outcome) ==
    LET extended == carry \o new_samples
        bins == Take([k \in 1..fft_size |-> k - 1], num_freq_bins(fft_size))
        Analysis(loop) ==
            {[sample_buffer |-> drain(extended, fft_size),
              fft_output_buffer |-> fft.scratch,
              record |-> Some(
                 [rms_amplitude |-> sqrt(loop.rms_sum_sq, fft_size),
                  peak_amplitude |-> loop.peak_amplitude,
                  frequency_magnitudes |->
                      [j \in 1..Len(bins) |->
                          Magnitude(fft.scratch, bins[j], fft_size)],
                  fft_size |-> fft_size])] :
             fft \in {process_with_scratch(
                         [domain |-> "time", re |-> loop.fft_input],
                         out, outcome)}}
    IN
    IF WindowReady(Len(extended), fft_size)
    THEN CHOOSE r \in UNION {Analysis(loop) :
                    loop \in {WindowLoop(extended, hann_window(fft_size), 1,
                                 [fft_input |-> <<>>, peak_amplitude |-> 0,
                                  rms_sum_sq |-> 0])}} : TRUE
    ELSE [sample_buffer |-> extended, fft_output_buffer |-> out,
          record |-> None]

\* AudioProcessor::new(fft_size), with what it has been given so far: the
\* number of samples supplied, the last argument and its length, and the
\* last value returned by process_samples.
NewAnalyzer(fft_size) ==
    [fft_size |-> fft_size, fft_output_buffer |-> ZeroBuffer(fft_size),
     supplied |-> 0, argLen |-> 0, new_samples |-> <<>>, returned |-> None]


(* --------------------------- AudioManager ------------------------------ *)

\* AudioManager::new: the stored volume for an optional requested volume.
NewVolume(volume) == clamp(unwrap_or(volume, 0), 0, VolUnit)

OptVolumes == {None} \cup {Some(v) : v \in VolumeInputs}

Init ==
    /\ state = "Idle"
    /\ sink = NoSlot
    /\ processing_thread_handle = NoSlot
    /\ stop_signal_sender = NoSlot
    /\ current_file_path = None
    /\ current_volume \in {NewVolume(o) : o \in OptVolumes}
    /\ sinkPaused = FALSE
    /\ sinkVolume = 0
    /\ sinkEmpty = TRUE
    /\ cpc = "ready"
    /\ call = NoCall
    /\ ret = NoRet
    /\ wpc = [s \in Slots |-> "none"]
    /\ stopMsgs = [s \in Slots |-> 0]
    /\ chunkQ = [s \in Slots |-> <<>>]
    /\ tapAlive = [s \in Slots |-> FALSE]
    /\ srcLen = [s \in Slots |-> 0]
    /\ source_channels = [s \in Slots |-> 1]
    /\ tapPos = [s \in Slots |-> 0]
    /\ buffer = [s \in Slots |-> <<>>]
    /\ capacity = [s \in Slots |-> SAMPLES_PER_CHUNK]
    /\ sample_buffer = [s \in Slots |-> <<>>]
    /\ resultQ = 0
    /\ resultRxAlive = TRUE
    /\ forwarded = [s \in Slots |-> <<>>]
    /\ analyzer = NewAnalyzer(DEFAULT_FFT_SIZE)

\* set_output_volume(volume)
set_output_volume(volume) ==
    /\ cpc = "ready"
    /\ current_volume' = clamp(volume, 0, VolUnit)
    /\ sinkVolume' = IF sink # NoSlot THEN current_volume' ELSE sinkVolume
    /\ ret' = [Return("set_output_volume", "ok", <<>>, state)
                 EXCEPT !.volume = Some(volume)]
    /\ UNCHANGED <<state, sink, processing_thread_handle, stop_signal_sender,
                   current_file_path, sinkPaused, sinkEmpty, cpc, call,
                   workerVars, tapVars, resultVars, analyzer>>

\* Mutant of PauseApplies: a finished (Loaded) session is paused too.
PauseApplies_AlsoLoaded == state \in {"Playing", "Loaded"}

\* The outer test of pause_playback.
PauseApplies == state = "Playing"

\* pause_playback()
pause_playback ==
    /\ cpc = "ready"
    /\ IF PauseApplies /\ sink # NoSlot /\ ~sinkPaused
       THEN /\ sinkPaused' = TRUE
            /\ state' = "Paused"
       ELSE UNCHANGED <<sinkPaused, state>>
    /\ ret' = Return("pause_playback", "ok", <<>>, state)
    /\ UNCHANGED <<sink, processing_thread_handle, stop_signal_sender,
                   current_file_path, current_volume, sinkVolume, sinkEmpty,
                   cpc, call, workerVars, tapVars, resultVars, analyzer>>

\* Mutant of ResumeActs: the state tested is Playing instead of Paused.
ResumeActs_Playing == state = "Playing" /\ sink # NoSlot

\* Mutant of ResumeActs: a finished (Loaded) session is resumed as well.
ResumeActs_AlsoLoaded ==
    \/ state = "Paused" /\ sink # NoSlot /\ sinkPaused
    \/ state = "Loaded" /\ sink # NoSlot

\* The three nested tests of resume_playback: state Paused, a sink stored,
\* the sink paused.
ResumeActs == state = "Paused" /\ sink # NoSlot /\ sinkPaused

\* resume_playback()
resume_playback ==
    /\ cpc = "ready"
    /\ IF ResumeActs
       THEN /\ sinkPaused' = FALSE
            /\ state' = "Playing"
       ELSE UNCHANGED <<sinkPaused, state>>
    /\ ret' = Return("resume_playback", "ok", <<>>, state)
    /\ UNCHANGED <<sink, processing_thread_handle, stop_signal_sender,
                   current_file_path, current_volume, sinkVolume, sinkEmpty,
                   cpc, call, workerVars, tapVars, resultVars, analyzer>>

\* mpsc::Sender::send on the stop channel of slot s: the message is queued
\* while the worker still owns the receiver, otherwise the send fails.
StopSend(s) ==
    IF WorkerRunning(s) THEN [stopMsgs EXCEPT ![s] = @ + 1] ELSE stopMsgs

\* Mutant of HandleAfterFinish: the taken handle is not stored back.
HandleAfterFinish_Dropped(handle) == NoSlot

\* The handle after the finished branch: taken and stored back.
HandleAfterFinish(handle) == handle

\* Mutant of SinkFinished: an empty sink counts as finished in any state.
SinkFinished_NoStateTest == sinkEmpty

\* Mutant of SinkFinished: the sink is not asked whether it is empty.
SinkFinished_NoEmptyTest == state = "Playing"

\* The test made on a stored sink: sink.empty() while Playing.
SinkFinished == sinkEmpty /\ state = "Playing"

\* check_and_update_finished_state()
check_and_update_finished_state ==
    /\ cpc = "ready"
    /\ IF sink # NoSlot
       THEN IF SinkFinished
            THEN /\ state' = "Loaded"
                 /\ processing_thread_handle' =
                        HandleAfterFinish(processing_thread_handle)
                 \* the stop sender is taken, used for one send and
                 \* stored back
                 /\ stopMsgs' = IF stop_signal_sender # NoSlot
                                THEN StopSend(stop_signal_sender)
                                ELSE stopMsgs
            ELSE UNCHANGED <<state, stopMsgs, processing_thread_handle>>
       ELSE /\ state' = IF state \in {"Playing", "Paused"} THEN "Idle" ELSE state
            /\ UNCHANGED <<stopMsgs, processing_thread_handle>>
    /\ ret' = Return("check_and_update_finished_state", "ok", <<>>, state)
    /\ UNCHANGED <<sink, stop_signal_sender,
                   current_file_path, current_volume, sinkVars, cpc, call,
                   wpc, chunkQ, sample_buffer, tapVars, resultVars, analyzer>>

(* --------------------- stop_playback_and_processing -------------------- *)

\* Step 1: take, stop and drop the sink. The SampleBroadcaster appended to
\* it, and with it the sample-chunk sender, is dropped with the sink.
TeardownSink ==
    /\ cpc = "td_sink"
    /\ IF sink # NoSlot
       THEN /\ tapAlive' = [tapAlive EXCEPT ![sink] = FALSE]
            /\ buffer' = [buffer EXCEPT ![sink] = <<>>]
            /\ tapPos' = [tapPos EXCEPT ![sink] = 0]
            /\ srcLen' = [srcLen EXCEPT ![sink] = 0]
            /\ forwarded' = [forwarded EXCEPT ![sink] = <<>>]
            /\ sink' = NoSlot
            /\ sinkPaused' = FALSE
            /\ sinkEmpty' = TRUE
            /\ sinkVolume' = 0
       ELSE UNCHANGED <<tapAlive, buffer, tapPos, srcLen, forwarded, sink,
                        sinkVars>>
    /\ cpc' = "td_signal"
    /\ UNCHANGED <<state, processing_thread_handle, stop_signal_sender,
                   current_file_path, current_volume, call, ret,
                   workerVars, source_channels, capacity, resultVars, analyzer>>

\* Step 2: take the stop sender, send one stop message, drop the sender.
TeardownSignal ==
    /\ cpc = "td_signal"
    /\ IF stop_signal_sender # NoSlot
       THEN /\ stopMsgs' = StopSend(stop_signal_sender)
            /\ stop_signal_sender' = NoSlot
       ELSE UNCHANGED <<stopMsgs, stop_signal_sender>>
    /\ cpc' = "td_join"
    /\ UNCHANGED <<state, sink, processing_thread_handle, current_file_path,
                   current_volume, sinkVars, call, ret, wpc, chunkQ,
                   sample_buffer, tapVars, resultVars, analyzer>>

\* Mutant of JoinReturns: the handle is dropped without waiting.
JoinReturns_NoWait(h) == TRUE

\* JoinHandle::join returns once the thread of the handle has finished.
JoinReturns(h) == wpc[h] = "done"

\* Mutant of TeardownState: the teardown leaves Loaded for a replay.
TeardownState_Loaded == "Loaded"

\* The state stop_playback_and_processing leaves behind.
TeardownState == "Idle"

\* Step 3: take the handle and join it (blocking); then reset the state and
\* return to the caller: load_and_play_file goes on, drop ends.
TeardownJoin ==
    /\ cpc = "td_join"
    /\ IF processing_thread_handle # NoSlot
       THEN /\ JoinReturns(processing_thread_handle)
            /\ wpc' = [wpc EXCEPT ![processing_thread_handle] =
                          IF @ = "done" THEN "none" ELSE @]
            /\ processing_thread_handle' = NoSlot
       ELSE UNCHANGED <<wpc, processing_thread_handle>>
    /\ state' = TeardownState
    /\ IF call.op = "load"
       THEN /\ cpc' = "load_body"
            /\ UNCHANGED <<call, ret>>
       ELSE /\ cpc' = "dropped"
            /\ call' = NoCall
            /\ ret' = Return("drop", "ok", <<>>, call.pre)
    /\ UNCHANGED <<sink, stop_signal_sender, current_file_path,
                   current_volume, sinkVars, stopMsgs, chunkQ, sample_buffer,
                   tapVars, resultVars, analyzer>>

\* Drop for AudioManager: calls stop_playback_and_processing.
drop ==
    /\ cpc = "ready"
    /\ cpc' = "td_sink"
    /\ call' = [op |-> "drop", path |-> <<>>, pre |-> state]
    /\ UNCHANGED <<engineVars, sinkVars, ret, workerVars, tapVars, resultVars,
                   analyzer>>


(* -------------------------- load_and_play_file ------------------------- *)

\* A slot none of whose parts is in use: no thread, no broadcaster, and
\* neither the handle nor the stop sender of the engine refers to it.
FreeSlots ==
    {s \in Slots : /\ wpc[s] = "none"
                   /\ ~tapAlive[s]
                   /\ stop_signal_sender # s
                   /\ processing_thread_handle # s}

FirstFree == CHOOSE s \in FreeSlots : \A t \in FreeSlots : s <= t

\* Where load_and_play_file can end: the five early returns and success.
LoadOutcomes == {"open", "decode", "spawn", "sink", "ok"}

\* Mutant of RecordedPath: the trimmed path is recorded.
RecordedPath_Trimmed(file_path) == trim(file_path)

\* file_path.to_string(), as recorded in current_file_path
RecordedPath(file_path) == file_path

\* Mutant of StateAfterBody: Playing is assigned before the sink is created.
StateAfterBody_Early(outcome) ==
    IF outcome \in {"ok", "sink"} THEN "Playing" ELSE state

\* The state load_and_play_file leaves when its body ends with `outcome`:
\* the assignment of Playing is the last statement before Ok(()).
StateAfterBody(outcome) == IF outcome = "ok" THEN "Playing" ELSE state

\* Entry: the path check; a path that passes it goes into
\* stop_playback_and_processing.
load_and_play_file(file_path) ==
    /\ cpc = "ready"
    /\ IF PathRejected(file_path)
       THEN /\ ret' = Return("load", "invalid_input", file_path, state)
            /\ UNCHANGED <<cpc, call>>
       ELSE /\ cpc' = "td_sink"
            /\ call' = [op |-> "load", path |-> file_path, pre |-> state]
            /\ UNCHANGED ret
    /\ UNCHANGED <<engineVars, sinkVars, workerVars, tapVars, resultVars, analyzer>>

\* Mutant of NewSinkVolume: the new sink keeps rodio's default volume.
NewSinkVolume_Default == VolUnit

\* new_sink.set_volume(self.current_volume)
NewSinkVolume == current_volume

\* The body after the teardown: open, decode, channels, thread, sink.
\* len and ch are the length and channel count of the decoded source.
LoadBody(outcome, len, ch) ==
    /\ cpc = "load_body"
    /\ cpc' = "ready"
    /\ call' = NoCall
    /\ ret' = Return("load", outcome, call.path, call.pre)
    /\ state' = StateAfterBody(outcome)
    /\ IF outcome \in {"open", "decode"}
       THEN UNCHANGED <<sink, processing_thread_handle, stop_signal_sender,
                        current_file_path, sinkVars, workerVars, tapVars>>
       ELSE /\ FreeSlots # {}
            /\ LET s == FirstFree IN
               /\ current_file_path' = Some(RecordedPath(call.path))
               \* fresh sample-chunk and stop channels
               /\ chunkQ' = [chunkQ EXCEPT ![s] = <<>>]
               /\ stopMsgs' = [stopMsgs EXCEPT ![s] = 0]
               /\ stop_signal_sender' = s
               /\ IF outcome = "spawn"
                  THEN UNCHANGED <<sink, processing_thread_handle, sinkVars,
                                   wpc, sample_buffer, tapVars>>
                  ELSE /\ wpc' = [wpc EXCEPT ![s] = "check"]
                       /\ sample_buffer' = [sample_buffer EXCEPT ![s] = <<>>]
                       /\ processing_thread_handle' = s
                       /\ IF outcome = "sink"
                          THEN \* the broadcaster is dropped unused
                               UNCHANGED <<sink, sinkVars, tapVars>>
                          ELSE /\ sink' = s
                               /\ sinkVolume' = NewSinkVolume
                               /\ sinkPaused' = FALSE
                               /\ sinkEmpty' = FALSE
                               /\ tapAlive' = [tapAlive EXCEPT ![s] = TRUE]
                               /\ srcLen' = [srcLen EXCEPT ![s] = len]
                               /\ source_channels' =
                                      [source_channels EXCEPT ![s] = ch]
                               /\ tapPos' = [tapPos EXCEPT ![s] = 0]
                               \* SampleBroadcaster::new(decoder_f32,
                               \*   sample_chunk_sender, SAMPLES_PER_CHUNK)
                               /\ buffer' = [buffer EXCEPT ![s] = <<>>]
                               /\ capacity' = [capacity EXCEPT ![s] =
                                                  SAMPLES_PER_CHUNK]
                               /\ forwarded' = [forwarded EXCEPT ![s] = <<>>]
    /\ UNCHANGED <<current_volume, resultVars, analyzer>>


(* -------------------------- SampleBroadcaster -------------------------- *)

\* The decoded source of length len is the sample sequence 1, 2, ..., len;
\* source.next() after pos samples have been pulled.
source_next(len, pos) == IF pos < len THEN Some(pos + 1) ELSE None

\* What the sender side sees of the sample-chunk channel of slot s.
ChanStatus(s) ==
    IF ~WorkerRunning(s) THEN "disconnected"
    ELSE IF Len(chunkQ[s]) >= ChunkChannelCap THEN "full"
    ELSE "room"

\* Mutant of next: a full buffer that meets a disconnected channel ends the
\* stream instead of returning the sample.
next_StopOnDisconnect(len, pos, buf, cap, chan) ==
    LET item == source_next(len, pos) IN
    IF item # None
    THEN LET pushed == Append(buf, item[1]) IN
         IF Len(pushed) = cap
         THEN [item |-> IF chan = "disconnected" THEN None ELSE Some(item[1]),
               buffer |-> <<>>, op |-> "try_send",
               sent |-> IF chan = "room" THEN Some(pushed) ELSE None,
               blocked |-> FALSE]
         ELSE [item |-> Some(item[1]), buffer |-> pushed, op |-> "none",
               sent |-> None, blocked |-> FALSE]
    ELSE IF buf # <<>>
         THEN [item |-> None, buffer |-> <<>>, op |-> "send",
               sent |-> IF chan = "room" THEN Some(buf) ELSE None,
               blocked |-> chan = "full"]
         ELSE [item |-> None, buffer |-> buf, op |-> "none",
               sent |-> None, blocked |-> FALSE]

\* Mutant of next: a full buffer is handed over with the blocking send.
next_BlockingSend(len, pos, buf, cap, chan) ==
    LET item == source_next(len, pos) IN
    IF item # None
    THEN LET pushed == Append(buf, item[1]) IN
         IF Len(pushed) = cap
         THEN [item |-> Some(item[1]),
               buffer |-> <<>>, op |-> "send",
               sent |-> IF chan = "room" THEN Some(pushed) ELSE None,
               blocked |-> chan = "full"]
         ELSE [item |-> Some(item[1]), buffer |-> pushed, op |-> "none",
               sent |-> None, blocked |-> FALSE]
    ELSE IF buf # <<>>
         THEN [item |-> None, buffer |-> <<>>, op |-> "send",
               sent |-> IF chan = "room" THEN Some(buf) ELSE None,
               blocked |-> chan = "full"]
         ELSE [item |-> None, buffer |-> buf, op |-> "none",
               sent |-> None, blocked |-> FALSE]

\* Mutant of next: the buffer is kept after the final send.
next_NoClearAtEnd(len, pos, buf, cap, chan) ==
    LET item == source_next(len, pos) IN
    IF item # None
    THEN LET pushed == Append(buf, item[1]) IN
         IF Len(pushed) = cap
         THEN [item |-> Some(item[1]),
               buffer |-> <<>>, op |-> "try_send",
               sent |-> IF chan = "room" THEN Some(pushed) ELSE None,
               blocked |-> FALSE]
         ELSE [item |-> Some(item[1]), buffer |-> pushed, op |-> "none",
               sent |-> None, blocked |-> FALSE]
    ELSE IF buf # <<>>
         THEN [item |-> None, buffer |-> buf, op |-> "send",
               sent |-> IF chan = "room" THEN Some(buf) ELSE None,
               blocked |-> chan = "full"]
         ELSE [item |-> None, buffer |-> buf, op |-> "none",
               sent |-> None, blocked |-> FALSE]

\* Mutant of next: a chunk that meets a full channel is kept in the buffer.
next_KeepOnFull(len, pos, buf, cap, chan) ==
    LET item == source_next(len, pos) IN
    IF item # None
    THEN LET pushed == Append(buf, item[1]) IN
         IF Len(pushed) = cap
         THEN [item |-> Some(item[1]),
               buffer |-> IF chan = "full" THEN pushed ELSE <<>>,
               op |-> "try_send",
               sent |-> IF chan = "room" THEN Some(pushed) ELSE None,
               blocked |-> FALSE]
         ELSE [item |-> Some(item[1]), buffer |-> pushed, op |-> "none",
               sent |-> None, blocked |-> FALSE]
    ELSE IF buf # <<>>
         THEN [item |-> None, buffer |-> <<>>, op |-> "send",
               sent |-> IF chan = "room" THEN Some(buf) ELSE None,
               blocked |-> chan = "full"]
         ELSE [item |-> None, buffer |-> buf, op |-> "none",
               sent |-> None, blocked |-> FALSE]

\* SampleBroadcaster::next for a broadcaster of the given buffer capacity:
\* the item returned, the buffer left behind, the channel operation made
\* (none, try_send or the blocking send), the chunk put on the channel (None
\* if none), and whether the call is a send that cannot complete yet.
next(len, pos, buf, cap, chan) ==
    LET item == source_next(len, pos) IN
    IF item # None
    THEN LET pushed == Append(buf, item[1]) IN
         IF Len(pushed) = cap
         THEN [item |-> Some(item[1]),
               buffer |-> <<>>, op |-> "try_send",
               sent |-> IF chan = "room" THEN Some(pushed) ELSE None,
               blocked |-> FALSE]
         ELSE [item |-> Some(item[1]), buffer |-> pushed, op |-> "none",
               sent |-> None, blocked |-> FALSE]
    ELSE IF buf # <<>>
         THEN [item |-> None, buffer |-> <<>>, op |-> "send",
               sent |-> IF chan = "room" THEN Some(buf) ELSE None,
               blocked |-> chan = "full"]
         ELSE [item |-> None, buffer |-> buf, op |-> "none",
               sent |-> None, blocked |-> FALSE]

\* One call of next() on the broadcaster of slot s.
TapCall(s) ==
    LET r == next(srcLen[s], tapPos[s], buffer[s], capacity[s],
                  ChanStatus(s)) IN
    /\ ~r.blocked
    /\ buffer' = [buffer EXCEPT ![s] = r.buffer]
    /\ tapPos' = [tapPos EXCEPT ![s] = IF r.item # None THEN @ + 1 ELSE @]
    /\ chunkQ' = [chunkQ EXCEPT ![s] =
                     IF r.sent # None THEN Append(@, r.sent[1]) ELSE @]
    /\ forwarded' = [forwarded EXCEPT ![s] = Append(@, r.item)]

\* The output device pulls one sample from the playing sink. When the
\* broadcaster returns None the sink's queue drops it and becomes empty.
AudioPull ==
    /\ sink # NoSlot
    /\ ~sinkPaused
    /\ tapAlive[sink]
    /\ TapCall(sink)
    /\ LET item == forwarded'[sink][Len(forwarded'[sink])] IN
       /\ tapAlive' = [tapAlive EXCEPT ![sink] = item # None]
       /\ sinkEmpty' = (item = None)
    /\ UNCHANGED <<engineVars, sinkPaused, sinkVolume, ctlVars, wpc, stopMsgs,
                   sample_buffer, srcLen, source_channels, capacity,
                   resultVars, analyzer>>

(* ------------------------------ worker thread -------------------------- *)

\* The thread leaves its closure: both receivers and its clone of the
\* analysis sender are dropped, and what was queued for it is lost.
WorkerExit(s) ==
    /\ wpc' = [wpc EXCEPT ![s] = "done"]
    /\ chunkQ' = [chunkQ EXCEPT ![s] = <<>>]
    /\ stopMsgs' = [stopMsgs EXCEPT ![s] = 0]

\* Mutant of StopSignalled: only a dropped sender stops the worker.
StopSignalled_DisconnectOnly(s) == stop_signal_sender # s

\* stop_receiver.try_recv() is Ok(_) or Err(TryRecvError::Disconnected)
StopSignalled(s) == stopMsgs[s] > 0 \/ stop_signal_sender # s

\* Top of the loop: stop_receiver.try_recv()
WorkerCheckStop(s) ==
    /\ wpc[s] = "check"
    /\ IF StopSignalled(s)
       THEN WorkerExit(s)
       ELSE /\ wpc' = [wpc EXCEPT ![s] = "recv"]
            /\ UNCHANGED <<chunkQ, stopMsgs>>
    /\ UNCHANGED <<engineVars, sinkVars, ctlVars, sample_buffer, tapVars,
                   resultVars, analyzer>>

\* Mutant of recv_timeout: once the sender is gone the receive reports the
\* disconnection, also with chunks still queued.
recv_timeout_DisconnectFirst(s) ==
    IF ~tapAlive[s] THEN "disconnected"
    ELSE IF chunkQ[s] # <<>> THEN "chunk" ELSE "timeout"

\* Mutant of recv_timeout: a queued chunk is never handed over.
recv_timeout_NoChunk(s) == IF tapAlive[s] THEN "timeout" ELSE "disconnected"

\* What sample_chunk_receiver.recv_timeout(200 ms) returns: a queued chunk
\* first, else Disconnected if the sender is gone, else Timeout.
recv_timeout(s) ==
    IF chunkQ[s] # <<>> THEN "chunk"
    ELSE IF tapAlive[s] THEN "timeout" ELSE "disconnected"

\* Mutant of BreaksOnRecvError: no error of the receive ends the loop.
BreaksOnRecvError_Never(err) == FALSE

\* Mutant of BreaksOnRecvError: a timeout ends the loop too.
BreaksOnRecvError_Any(err) == TRUE

\* The arms for Err(Timeout) (continue) and Err(Disconnected) (break)
BreaksOnRecvError(err) == err = "disconnected"

\* What analysis_sender.try_send(data) meets on the analysis channel.
AnalysisChannel ==
    IF ~resultRxAlive THEN "disconnected"
    ELSE IF resultQ < AnalysisChannelCap THEN "room" ELSE "full"

\* Mutant of AnalysisSendWaits: the record is sent with the blocking send,
\* which waits while the channel is full.
AnalysisSendWaits_WhenFull(chan) == chan = "full"

\* Whether the send of a record waits for the analysis channel: try_send
\* returns at once, also when the channel is full.
AnalysisSendWaits(chan) == FALSE

\* Mutant of BreaksOnSendError: a disconnected analysis channel is ignored.
BreaksOnSendError_Never(chan) == FALSE

\* if matches!(e, TrySendError::Disconnected(_)) { break; }
BreaksOnSendError(chan) == chan = "disconnected"

\* sample_chunk_receiver.recv_timeout(200 ms) and the handling of its result
WorkerRecv(s) ==
    /\ wpc[s] = "recv"
    /\ IF recv_timeout(s) = "chunk"
       THEN LET samples == Head(chunkQ[s])
                input == WorkerInput(samples, source_channels[s])
            IN
            \* r is what process_samples leaves and returns; the content of
            \* a record does not reach the channel, which is kept as a
            \* count, so the processor's transform buffers are not kept for
            \* the worker
            \E r \in {IF input = None
                      THEN [sample_buffer |-> sample_buffer[s], record |-> None]
                      ELSE process_samples(sample_buffer[s], input[1],
                                           DEFAULT_FFT_SIZE,
                                           ZeroBuffer(DEFAULT_FFT_SIZE),
                                           "unchanged")} :
            /\ ~(r.record # None /\ AnalysisSendWaits(AnalysisChannel))
            /\ sample_buffer' = [sample_buffer EXCEPT ![s] = r.sample_buffer]
            /\ IF r.record # None /\ BreaksOnSendError(AnalysisChannel)
               THEN /\ WorkerExit(s)
                    /\ UNCHANGED resultQ
               ELSE /\ wpc' = [wpc EXCEPT ![s] = "check"]
                    /\ chunkQ' = [chunkQ EXCEPT ![s] = Tail(@)]
                    /\ resultQ' = IF /\ r.record # None
                                     /\ AnalysisChannel = "room"
                                  THEN resultQ + 1 ELSE resultQ
                    /\ UNCHANGED stopMsgs
       ELSE /\ IF BreaksOnRecvError(recv_timeout(s))
               THEN WorkerExit(s)
               ELSE /\ wpc' = [wpc EXCEPT ![s] = "check"]
                    /\ UNCHANGED <<chunkQ, stopMsgs>>
            /\ UNCHANGED <<sample_buffer, resultQ>>
    /\ UNCHANGED <<engineVars, sinkVars, ctlVars, tapVars, resultRxAlive,
                   analyzer>>

(* ----------------------- analysis-result receiver ---------------------- *)

\* The caller drains the analysis channel (once per frame in the app).
ResultDrain ==
    /\ resultRxAlive
    /\ resultQ > 0
    /\ resultQ' = 0
    /\ UNCHANGED <<engineVars, sinkVars, ctlVars, workerVars, tapVars,
                   resultRxAlive, analyzer>>

\* The caller drops its receiver of the analysis channel.
ResultReceiverDrop ==
    /\ resultRxAlive
    /\ resultRxAlive' = FALSE
    /\ resultQ' = 0
    /\ UNCHANGED <<engineVars, sinkVars, ctlVars, workerVars, tapVars,
                   analyzer>>

(* ------------------------------ behaviour ------------------------------ *)

Next ==
    \/ \E v \in VolumeInputs : set_output_volume(v)
    \/ pause_playback
    \/ resume_playback
    \/ check_and_update_finished_state
    \/ \E p \in Paths : load_and_play_file(p)
    \/ \E o \in LoadOutcomes, len \in 0..MaxSrcLen, ch \in Channels :
          LoadBody(o, len, ch)
    \/ drop
    \/ TeardownSink
    \/ TeardownSignal
    \/ TeardownJoin
    \/ AudioPull
    \/ \E s \in Slots : WorkerCheckStop(s)
    \/ \E s \in Slots : WorkerRecv(s)
    \/ ResultDrain
    \/ ResultReceiverDrop

Spec == Init /\ [][Next]_vars

TypeOK ==
    /\ state \in PlaybackState
    /\ sink \in {NoSlot} \cup Slots
    /\ processing_thread_handle \in {NoSlot} \cup Slots
    /\ stop_signal_sender \in {NoSlot} \cup Slots
    /\ cpc \in {"ready", "td_sink", "td_signal", "td_join", "load_body",
                "dropped"}
    /\ \A s \in Slots : wpc[s] \in {"none", "check", "recv", "done"}
    /\ \A s \in Slots : Len(chunkQ[s]) <= ChunkChannelCap
    /\ resultQ \in 0..AnalysisChannelCap


(* ---------------- SampleBroadcaster against any receiver --------------- *)

\* Longest source of the broadcaster on its own, and the calls of next()
\* made after it has returned None.
TapMaxSrcLen == 5
TapExtraCalls == 1
\* Largest buffer_capacity handed to SampleBroadcaster::new.
TapMaxCapacity == 3

\* A broadcaster in slot 1 around a source of any length, its sender on a
\* fresh sample-chunk channel whose receiver is held by the environment.
TapInit ==
    /\ state = "Idle"
    /\ sink = NoSlot
    /\ processing_thread_handle = NoSlot
    /\ stop_signal_sender = NoSlot
    /\ current_file_path = None
    /\ current_volume = 0
    /\ sinkPaused = FALSE
    /\ sinkVolume = 0
    /\ sinkEmpty = TRUE
    /\ cpc = "ready"
    /\ call = NoCall
    /\ ret = NoRet
    /\ wpc = [s \in Slots |-> IF s = 1 THEN "recv" ELSE "none"]
    /\ stopMsgs = [s \in Slots |-> 0]
    /\ chunkQ = [s \in Slots |-> <<>>]
    /\ tapAlive = [s \in Slots |-> s = 1]
    /\ \E len \in 0..TapMaxSrcLen : srcLen = [s \in Slots |-> IF s = 1 THEN len ELSE 0]
    /\ source_channels = [s \in Slots |-> 1]
    /\ tapPos = [s \in Slots |-> 0]
    /\ buffer = [s \in Slots |-> <<>>]
    /\ \E c \in 1..TapMaxCapacity : capacity = [s \in Slots |-> c]
    /\ sample_buffer = [s \in Slots |-> <<>>]
    /\ resultQ = 0
    /\ resultRxAlive = TRUE
    /\ forwarded = [s \in Slots |-> <<>>]
    /\ analyzer = NewAnalyzer(DEFAULT_FFT_SIZE)

\* A caller pulls the next item, also after the end of the stream.
TapNext ==
    /\ Len(forwarded[1]) < srcLen[1] + 1 + TapExtraCalls
    /\ TapCall(1)
    /\ UNCHANGED <<engineVars, sinkVars, ctlVars, wpc, stopMsgs,
                   sample_buffer, tapAlive, srcLen, source_channels, capacity,
                   resultVars, analyzer>>

\* The receiver takes the oldest chunk off the channel.
TapEnvRecv ==
    /\ WorkerRunning(1)
    /\ chunkQ[1] # <<>>
    /\ chunkQ' = [chunkQ EXCEPT ![1] = Tail(@)]
    /\ UNCHANGED <<engineVars, sinkVars, ctlVars, wpc, stopMsgs,
                   sample_buffer, tapVars, resultVars, analyzer>>

\* The receiver is dropped.
TapEnvDisconnect ==
    /\ WorkerRunning(1)
    /\ WorkerExit(1)
    /\ UNCHANGED <<engineVars, sinkVars, ctlVars, sample_buffer, tapVars,
                   resultVars, analyzer>>

TapNextStep == TapNext \/ TapEnvRecv \/ TapEnvDisconnect

TapSpec == TapInit /\ [][TapNextStep]_vars


(* ------------------------- AudioProcessor alone ------------------------ *)

\* Largest analyzer size, longest argument of one process_samples call and
\* the most samples supplied to one analyzer.
ProcMaxN == 3
ProcMaxArg == 4
ProcMaxTotal == 5

\* Sample values (f32 in the code).
ProcSamples == {0 - 1, 0, 1}

\* The slices of at most n samples.
Slices(n) == UNION {[1..k -> ProcSamples] : k \in 0..n}

\* A fresh analyzer of any size N >= 1 (slot 1 holds its carry-over buffer);
\* no engine, broadcaster or worker exists.
ProcInit ==
    /\ state = "Idle"
    /\ sink = NoSlot
    /\ processing_thread_handle = NoSlot
    /\ stop_signal_sender = NoSlot
    /\ current_file_path = None
    /\ current_volume = 0
    /\ sinkPaused = FALSE
    /\ sinkVolume = 0
    /\ sinkEmpty = TRUE
    /\ cpc = "ready"
    /\ call = NoCall
    /\ ret = NoRet
    /\ wpc = [s \in Slots |-> "none"]
    /\ stopMsgs = [s \in Slots |-> 0]
    /\ chunkQ = [s \in Slots |-> <<>>]
    /\ tapAlive = [s \in Slots |-> FALSE]
    /\ srcLen = [s \in Slots |-> 0]
    /\ source_channels = [s \in Slots |-> 1]
    /\ tapPos = [s \in Slots |-> 0]
    /\ buffer = [s \in Slots |-> <<>>]
    /\ capacity = [s \in Slots |-> SAMPLES_PER_CHUNK]
    /\ sample_buffer = [s \in Slots |-> <<>>]
    /\ resultQ = 0
    /\ resultRxAlive = TRUE
    /\ forwarded = [s \in Slots |-> <<>>]
    /\ \E n \in 1..ProcMaxN : analyzer = NewAnalyzer(n)

\* process_samples(new_samples) on the analyzer, for one outcome of the
\* transform's scratch space.
AnalyzerCall(new_samples, outcome) ==
    LET r == process_samples(sample_buffer[1], new_samples,
                             analyzer.fft_size,
                             analyzer.fft_output_buffer, outcome) IN
    /\ sample_buffer' = [sample_buffer EXCEPT ![1] = r.sample_buffer]
    /\ analyzer' = [analyzer EXCEPT
                       !.fft_output_buffer = r.fft_output_buffer,
                       !.supplied = @ + Len(new_samples),
                       !.argLen = Len(new_samples),
                       !.new_samples = new_samples,
                       !.returned = r.record]

\* One call of process_samples(new_samples) on the analyzer.
ProcCall ==
    \E new_samples \in Slices(ProcMaxArg), outcome \in ScratchOutcomes :
       /\ analyzer.supplied + Len(new_samples) <= ProcMaxTotal
       /\ AnalyzerCall(new_samples, outcome)
       /\ UNCHANGED <<engineVars, sinkVars, ctlVars, wpc, stopMsgs, chunkQ,
                      tapVars, resultVars>>

\* A step in which process_samples was called: the argument of the call is
\* what the step leaves in the analyzer's new_samples.
ProcCalled ==
    \E outcome \in ScratchOutcomes :
       AnalyzerCall(analyzer'.new_samples, outcome)

ProcNext == ProcCall

ProcSpec == ProcInit /\ [][ProcNext]_vars


(* ---------------------- the worker's channel downmix ------------------- *)

\* Longest chunk received by the worker on its own.
MixMaxChunk == 6

\* Channel counts of a source (u16 in the code).
MixChannels == 0..3

\* A worker about to receive one chunk of any content from a source of any
\* channel count; its processor is the analyzer.
MixInit ==
    /\ state = "Idle"
    /\ sink = NoSlot
    /\ processing_thread_handle = NoSlot
    /\ stop_signal_sender = NoSlot
    /\ current_file_path = None
    /\ current_volume = 0
    /\ sinkPaused = FALSE
    /\ sinkVolume = 0
    /\ sinkEmpty = TRUE
    /\ cpc = "ready"
    /\ call = NoCall
    /\ ret = NoRet
    /\ wpc = [s \in Slots |-> IF s = 1 THEN "recv" ELSE "none"]
    /\ stopMsgs = [s \in Slots |-> 0]
    /\ \E samples \in Slices(MixMaxChunk) \ {<<>>} :
          chunkQ = [s \in Slots |-> IF s = 1 THEN <<samples>> ELSE <<>>]
    /\ tapAlive = [s \in Slots |-> s = 1]
    /\ srcLen = [s \in Slots |-> 0]
    /\ \E ch \in MixChannels : source_channels = [s \in Slots |-> ch]
    /\ tapPos = [s \in Slots |-> 0]
    /\ buffer = [s \in Slots |-> <<>>]
    /\ capacity = [s \in Slots |-> MixMaxChunk]
    /\ sample_buffer = [s \in Slots |-> <<>>]
    /\ resultQ = 0
    /\ resultRxAlive = TRUE
    /\ forwarded = [s \in Slots |-> <<>>]
    /\ analyzer = NewAnalyzer(DEFAULT_FFT_SIZE)

\* The Ok(samples) arm of the worker's receive, up to the call of
\* process_samples.
MixFeed ==
    /\ wpc[1] = "recv"
    /\ chunkQ[1] # <<>>
    /\ LET input == WorkerInput(Head(chunkQ[1]), source_channels[1]) IN
       IF input = None
       THEN UNCHANGED <<analyzer, sample_buffer>>
       ELSE \E outcome \in ScratchOutcomes : AnalyzerCall(input[1], outcome)
    /\ chunkQ' = [chunkQ EXCEPT ![1] = Tail(@)]
    /\ UNCHANGED <<engineVars, sinkVars, ctlVars, wpc, stopMsgs, tapVars,
                   resultVars>>

MixNext == MixFeed

MixSpec == MixInit /\ [][MixNext]_vars


(* ------------------- one playing session left to run ------------------ *)

\* Longest source and the channel counts of a session that is left alone.
PipeMaxSrcLen == 4
PipeChannels == 1..3

\* A fresh engine inside its first load_and_play_file, the teardown done.
PipeInit ==
    /\ state = "Idle"
    /\ sink = NoSlot
    /\ processing_thread_handle = NoSlot
    /\ stop_signal_sender = NoSlot
    /\ current_file_path = None
    /\ current_volume = NewVolume(None)
    /\ sinkPaused = FALSE
    /\ sinkVolume = 0
    /\ sinkEmpty = TRUE
    /\ cpc = "load_body"
    /\ call = [op |-> "load", path |-> <<"a">>, pre |-> "Idle"]
    /\ ret = NoRet
    /\ wpc = [s \in Slots |-> "none"]
    /\ stopMsgs = [s \in Slots |-> 0]
    /\ chunkQ = [s \in Slots |-> <<>>]
    /\ tapAlive = [s \in Slots |-> FALSE]
    /\ srcLen = [s \in Slots |-> 0]
    /\ source_channels = [s \in Slots |-> 1]
    /\ tapPos = [s \in Slots |-> 0]
    /\ buffer = [s \in Slots |-> <<>>]
    /\ capacity = [s \in Slots |-> SAMPLES_PER_CHUNK]
    /\ sample_buffer = [s \in Slots |-> <<>>]
    /\ resultQ = 0
    /\ resultRxAlive = TRUE
    /\ forwarded = [s \in Slots |-> <<>>]
    /\ analyzer = NewAnalyzer(DEFAULT_FFT_SIZE)

\* The load succeeds; then only the output device, the worker and the
\* reader of the analysis channel run.
PipeNext ==
    \/ \E len \in 0..PipeMaxSrcLen, ch \in PipeChannels :
          LoadBody("ok", len, ch)
    \/ AudioPull
    \/ \E s \in Slots : WorkerCheckStop(s)
    \/ \E s \in Slots : WorkerRecv(s)
    \/ ResultDrain

PipeSpec == PipeInit /\ [][PipeNext]_vars


(* ------------------- the engine under fair scheduling ------------------ *)

\* An engine built without a volume; the volume is not changed afterwards.
LiveInit == Init /\ current_volume = NewVolume(None)

\* Every operation of the engine and every step of the audio path, the
\* worker and the reader of the results, but set_output_volume.
LiveNext ==
    \/ pause_playback
    \/ resume_playback
    \/ check_and_update_finished_state
    \/ \E p \in Paths : load_and_play_file(p)
    \/ \E o \in LoadOutcomes, len \in 0..MaxSrcLen, ch \in Channels :
          LoadBody(o, len, ch)
    \/ drop
    \/ TeardownSink
    \/ TeardownSignal
    \/ TeardownJoin
    \/ AudioPull
    \/ \E s \in Slots : WorkerCheckStop(s)
    \/ \E s \in Slots : WorkerRecv(s)
    \/ ResultDrain
    \/ ResultReceiverDrop

\* A worker thread that can take a step is scheduled in the end (its
\* receive returns after 200 ms at the latest), and a call of
\* stop_playback_and_processing that can go on does. Nothing is assumed of
\* the caller of the engine, the audio device or the reader of the results.
LiveSpec ==
    /\ LiveInit
    /\ [][LiveNext]_vars
    /\ \A s \in Slots : WF_vars(WorkerCheckStop(s)) /\ WF_vars(WorkerRecv(s))
    /\ WF_vars(TeardownSink)
    /\ WF_vars(TeardownSignal)
    /\ WF_vars(TeardownJoin)


(* ------------------------------- claims -------------------------------- *)

\* The control thread is between two operations and the last one to return
\* was load_and_play_file with the given result.
LoadReturned(results) ==
    /\ cpc = "ready"
    /\ ret.op = "load"
    /\ ret.result \in results

LoadFailures == {"open", "decode", "spawn", "sink"}

\* C1: when load_and_play_file returns Ok, whatever the state at entry, the
\* state is Playing, a sink, a worker handle and a stop sender are stored,
\* and the recorded path is the path that was passed in.
C1_LoadOkPlays ==
    LoadReturned({"ok"}) =>
        /\ state = "Playing"
        /\ sink # NoSlot
        /\ processing_thread_handle # NoSlot
        /\ stop_signal_sender # NoSlot
        /\ current_file_path = Some(ret.path)

\* C1 witness: a load of a path with surrounding blanks, issued while a
\* session was paused, has returned Ok.
C1_Witness ==
    /\ LoadReturned({"ok"})
    /\ ret.pre = "Paused"
    /\ ret.path = <<" ", "a", " ">>
    /\ state = "Playing"

\* C2: at most one analysis worker thread is running at any time.
C2_AtMostOneWorker ==
    Cardinality({s \in Slots : WorkerRunning(s)}) <= 1

\* C2 witness: a second session was started over a playing one and its
\* worker is running.
C2_Witness ==
    /\ LoadReturned({"ok"})
    /\ ret.pre = "Playing"
    /\ WorkerRunning(processing_thread_handle)

\* C3: once stop_playback_and_processing has returned (into the body of
\* load_and_play_file, or at the end of drop) no worker thread is running.
C3_TeardownJoinsWorker ==
    cpc \in {"load_body", "dropped"} => \A s \in Slots : ~WorkerRunning(s)

\* C3 witness: the engine was dropped while playing, and the worker of that
\* session has finished and been joined.
C3_Witness ==
    /\ cpc = "dropped"
    /\ ret.op = "drop"
    /\ ret.pre = "Playing"
    /\ \A s \in Slots : wpc[s] = "none"

\* C4: the items SampleBroadcaster::next has returned are the items of the
\* wrapped source, in order, with None from the end of the source on,
\* whatever the sample-chunk channel did in between.
C4_TapForwardsSource ==
    \A i \in 1..Len(forwarded[1]) :
        forwarded[1][i] = source_next(srcLen[1], i - 1)

\* C4 witness: four samples were forwarded although the second full chunk
\* met a full channel and was dropped.
C4_Witness ==
    /\ capacity[1] = 2
    /\ WorkerRunning(1)
    /\ ChanStatus(1) = "full"
    /\ chunkQ[1] = << <<1, 2>> >>
    /\ forwarded[1] = <<Some(1), Some(2), Some(3), Some(4)>>

\* C5 as stated: a load that fails past the path check leaves the
\* PlaybackState it found at entry.
C5_AsStated ==
    LoadReturned(LoadFailures) => state = ret.pre

\* C5 amended: a load that fails past the path check leaves the state Idle,
\* the state the teardown of the previous session set.
C5_FailedLoadIsIdle ==
    LoadReturned(LoadFailures) => state = "Idle"

\* C5 witness: a load issued while playing failed to decode.
C5_Witness ==
    /\ LoadReturned({"decode"})
    /\ ret.pre = "Playing"
    /\ state = "Idle"

\* C6: a load with an empty or blank path returns the invalid-input error
\* and changes no engine field, nothing of the sink, the worker, the
\* channels or the broadcaster.
C6_BlankPathKeepsSession ==
    [][\A p \in Paths :
          (trim(p) = <<>> /\ load_and_play_file(p)) =>
              /\ ret'.result = "invalid_input"
              /\ UNCHANGED <<engineVars, sinkVars, workerVars, tapVars, cpc>>
      ]_vars

\* C6 witness: a blank path was rejected while a session was playing with
\* its worker running.
C6_Witness ==
    /\ cpc = "ready"
    /\ ret.op = "load"
    /\ ret.result = "invalid_input"
    /\ ret.path = <<" ", " ">>
    /\ state = "Playing"
    /\ sink # NoSlot
    /\ WorkerRunning(processing_thread_handle)

\* C7: after a load that failed past the path check the engine is in no
\* playing session: the state is neither Playing nor Paused, no sink is
\* stored and no broadcaster is alive.
C7_FailedLoadNotPlaying ==
    LoadReturned(LoadFailures) =>
        /\ state \notin {"Playing", "Paused"}
        /\ sink = NoSlot
        /\ \A s \in Slots : ~tapAlive[s]

\* C7 witness: a load issued while playing failed to spawn the thread.
C7_Witness ==
    /\ LoadReturned({"spawn"})
    /\ ret.pre = "Playing"
    /\ sink = NoSlot

\* C8: between two operations the stop sender and the worker handle are
\* both stored or both absent.
C8_SenderAndHandleTogether ==
    cpc = "ready" =>
        ((stop_signal_sender = NoSlot) <=> (processing_thread_handle = NoSlot))

\* C9: the stored volume is within [0, 1].
C9_VolumeClamped == current_volume >= 0 /\ current_volume <= VolUnit

\* C9 witness: a volume above 1 was set and 1 is stored.
C9_Witness ==
    /\ ret.op = "set_output_volume"
    /\ ret.volume = Some(VolUnit + 1)
    /\ current_volume = VolUnit

\* C10: pause_playback in state Playing pauses the sink and sets Paused; in
\* any other state it changes neither the state nor the sink.
C10_Pause ==
    [][pause_playback =>
          IF state = "Playing"
          THEN state' = "Paused" /\ sinkPaused'
          ELSE UNCHANGED <<state, sink, sinkVars>>
      ]_vars

\* C10 witness: pause_playback has returned after being called in state
\* Playing.
C10_Witness ==
    /\ cpc = "ready"
    /\ ret.op = "pause_playback"
    /\ ret.pre = "Playing"
    /\ state = "Paused"
    /\ sinkPaused


\* C11: resume_playback in state Paused un-pauses the sink and sets Playing;
\* in state Idle or Playing it changes neither the state nor the sink.
C11_Resume ==
    [][resume_playback =>
          /\ state = "Paused" => state' = "Playing" /\ ~sinkPaused'
          /\ state \in {"Idle", "Playing"} => UNCHANGED <<state, sink, sinkVars>>
      ]_vars

\* C11 witness: resume_playback has returned after being called in state
\* Paused.
C11_Witness ==
    /\ cpc = "ready"
    /\ ret.op = "resume_playback"
    /\ ret.pre = "Paused"
    /\ state = "Playing"
    /\ ~sinkPaused

\* C12 as stated: resume_playback called in state Loaded with the sink
\* still stored sets the state to Playing.
C12_AsStated ==
    [][(resume_playback /\ state = "Loaded" /\ sink # NoSlot) =>
          state' = "Playing"]_vars

\* C12 amended: resume_playback called in state Loaded changes neither the
\* state nor the sink; the state stays Loaded.
C12_ResumeLoadedNoOp ==
    [][(resume_playback /\ state = "Loaded") =>
          (state' = "Loaded" /\ UNCHANGED <<sink, sinkVars>>)]_vars

\* C12 witness: resume_playback has returned after being called in state
\* Loaded with the finished session's sink stored.
C12_Witness ==
    /\ cpc = "ready"
    /\ ret.op = "resume_playback"
    /\ ret.pre = "Loaded"
    /\ state = "Loaded"
    /\ sink # NoSlot
    /\ sinkEmpty

\* C13: a poll in state Playing with an empty sink sets Loaded and keeps
\* the sink, the worker handle and the stop sender stored; a poll in state
\* Playing with a sink that is not empty leaves Playing.
C13_PollFinished ==
    [][check_and_update_finished_state =>
          /\ (state = "Playing" /\ sinkEmpty) =>
                 /\ state' = "Loaded"
                 /\ sink # NoSlot
                 /\ processing_thread_handle # NoSlot
                 /\ stop_signal_sender # NoSlot
                 /\ UNCHANGED <<sink, processing_thread_handle,
                                stop_signal_sender>>
          /\ (state = "Playing" /\ ~sinkEmpty) => state' = "Playing"
      ]_vars

\* C13 witness: a poll found the sink empty while Playing.
C13_Witness ==
    /\ cpc = "ready"
    /\ ret.op = "check_and_update_finished_state"
    /\ ret.pre = "Playing"
    /\ state = "Loaded"
    /\ sink # NoSlot
    /\ processing_thread_handle # NoSlot
    /\ stop_signal_sender # NoSlot

\* The engine holds nothing of a session.
NoSession ==
    /\ state = "Idle"
    /\ sink = NoSlot
    /\ processing_thread_handle = NoSlot
    /\ stop_signal_sender = NoSlot

InTeardown == cpc \in {"td_sink", "td_signal", "td_join"}

\* C14: stop_playback_and_processing returns with state Idle and no sink,
\* handle or stop sender; entered with nothing of a session stored (a second
\* time, or before any session) its steps change nothing and its join step
\* does not wait.
C14_TeardownIdempotent ==
    [][/\ cpc' \in {"load_body", "dropped"} => NoSession'
       /\ (InTeardown /\ NoSession) =>
              /\ UNCHANGED <<engineVars, sinkVars, workerVars, tapVars>>
              /\ ENABLED TeardownJoin \/ cpc # "td_join"
      ]_vars

\* C14 witness: a session was started and retired by a load that failed to
\* open its file, and the teardown of the next load has returned again.
C14_Witness ==
    /\ cpc = "load_body"
    /\ call.pre = "Idle"
    /\ ret.op = "load"
    /\ ret.result = "open"
    /\ current_file_path # None
    /\ NoSession

\* What next() does in the current state of the broadcaster of slot 1.
TapResult ==
    next(srcLen[1], tapPos[1], buffer[1], capacity[1], ChanStatus(1))

\* C15: while the wrapped source still yields a sample, next() is never
\* held up by the channel: whether the channel has room, is full or is
\* disconnected the call can complete, it makes at most one try_send and no
\* blocking send, and it returns the source's sample; a blocking send is
\* only made once the source is exhausted.
C15_NoBlockingBeforeEnd ==
    [][/\ tapPos[1] < srcLen[1] =>
             /\ ENABLED TapNext
             /\ ~TapResult.blocked
             /\ TapResult.op \in {"none", "try_send"}
             /\ TapNext =>
                   /\ forwarded'[1] = Append(forwarded[1], Some(tapPos[1] + 1))
                   /\ Len(chunkQ'[1]) <= Len(chunkQ[1]) + 1
       /\ TapResult.op = "send" => tapPos[1] = srcLen[1]]_vars

\* Samples 2 and 3 were returned while the channel was full: the chunk of
\* sample 1 is still queued and theirs were dropped.
C15_Witness ==
    /\ capacity[1] = 1
    /\ Len(forwarded[1]) >= 3
    /\ forwarded[1][3] = Some(3)
    /\ chunkQ[1] = << <<1>> >>
    /\ WorkerRunning(1)

\* C16: when the wrapped source is exhausted, next() hands a non-empty
\* partial buffer to the blocking send once (the call waits while the
\* channel is full and the receiver alive), clears the buffer and returns the
\* end of the stream; with an empty buffer it sends nothing, and since the
\* buffer is empty after the first end-of-stream return, later calls send
\* nothing more.
C16_FinalSendOnce ==
    [][/\ (tapPos[1] = srcLen[1] /\ buffer[1] # <<>>
              /\ ChanStatus(1) = "full") => ~ENABLED TapNext
       /\ (TapNext /\ tapPos[1] = srcLen[1]) =>
             /\ forwarded'[1] = Append(forwarded[1], None)
             /\ buffer'[1] = <<>>
             /\ buffer[1] # <<>> =>
                   /\ TapResult.op = "send"
                   /\ Len(forwarded[1]) = srcLen[1]
                   /\ chunkQ'[1] = IF WorkerRunning(1)
                                      THEN Append(chunkQ[1], buffer[1])
                                      ELSE chunkQ[1]
             /\ buffer[1] = <<>> =>
                   /\ TapResult.op = "none"
                   /\ chunkQ'[1] = chunkQ[1]
       /\ Len(forwarded'[1]) > srcLen[1] => buffer'[1] = <<>>]_vars

\* Every call was made, the last ones after the end of the stream, and the
\* channel holds the one partial chunk of the final send.
C16_Witness ==
    /\ Len(forwarded[1]) = srcLen[1] + 1 + TapExtraCalls
    /\ srcLen[1] % capacity[1] # 0
    /\ Len(chunkQ[1]) = 1
    /\ Len(chunkQ[1][1]) = srcLen[1] % capacity[1]
    /\ WorkerRunning(1)

\* C17: at the natural end of a stream (the poll has set Loaded and nothing
\* else was called since) the worker of the session does not leave its loop
\* at the stop check while the final partial chunk is still queued for it:
\* that chunk is received and processed first.
C17_FinalChunkProcessed ==
    [][\A s \in Slots :
          (/\ state = "Loaded" /\ cpc = "ready" /\ sink = s
           /\ processing_thread_handle = s
           /\ wpc[s] = "check" /\ wpc'[s] = "done")
          => \A i \in 1..Len(chunkQ[s]) : Len(chunkQ[s][i]) = capacity[s]]_vars

\* C18: on a fresh analyzer of size N a call of process_samples returns
\* nothing as long as the samples supplied so far, this call's included, are
\* fewer than N, and the call that brings the total from below N to N or
\* more returns a record.
C18_FirstWindow ==
    [][ProcCalled =>
          /\ analyzer'.supplied < analyzer.fft_size
                => analyzer'.returned = None
          /\ (/\ analyzer.supplied < analyzer.fft_size
              /\ analyzer'.supplied >= analyzer.fft_size)
                => analyzer'.returned # None]_vars

\* Several calls with fewer than N samples each have brought the total to
\* exactly N, and the last of them returned a record.
C18_Witness ==
    /\ analyzer.supplied = analyzer.fft_size
    /\ analyzer.argLen \in 1..(analyzer.fft_size - 1)
    /\ analyzer.returned # None
    /\ sample_buffer[1] = <<>>

\* C19 as stated: after any call that returned a record the carry-over
\* buffer holds fewer than N samples.
C19_AsStated ==
    analyzer.returned # None => Len(sample_buffer[1]) < analyzer.fft_size

\* C19: a call that returns a record removes exactly the N samples of one
\* window: the carry-over buffer then holds what it held before plus the
\* argument, less its first N samples, which is fewer than N samples
\* exactly when the buffer and the argument together held fewer than 2N.
C19_CarryAfterRecord ==
    [][(ProcCalled /\ analyzer'.returned # None) =>
          LET N == analyzer.fft_size
              had == Len(sample_buffer[1]) + analyzer'.argLen IN
          /\ Len(sample_buffer'[1]) = had - N
          /\ \A i \in 1..Len(sample_buffer[1]) :
                i > N => sample_buffer'[1][i - N] = sample_buffer[1][i]
          /\ Len(sample_buffer'[1]) < N <=> had < 2 * N]_vars

\* A call with at least 2N samples returned a record and left N or more
\* samples in the carry-over buffer.
C19_Witness ==
    /\ analyzer.returned # None
    /\ analyzer.argLen >= 2 * analyzer.fft_size
    /\ Len(sample_buffer[1]) >= analyzer.fft_size

\* C20: every record returned by process_samples has floor(N/2)+1
\* frequency magnitudes and carries the analyzer's N as its fft_size.
C20_RecordShape ==
    analyzer.returned # None =>
        /\ Len(analyzer.returned[1].frequency_magnitudes)
              = analyzer.fft_size \div 2 + 1
        /\ analyzer.returned[1].fft_size = analyzer.fft_size

\* A record of an analyzer of odd size 3, with 2 magnitudes.
C20_Witness ==
    /\ analyzer.fft_size = 3
    /\ analyzer.returned # None
    /\ Len(analyzer.returned[1].frequency_magnitudes) = 2

\* The sum of the squares of the first n elements of a sequence.
RECURSIVE SumOfSquares(_, _)
SumOfSquares(seq, n) ==
    IF n = 0 THEN 0 ELSE seq[n] * seq[n] + SumOfSquares(seq, n - 1)

\* C21: the record's peak_amplitude is the largest absolute value, and its
\* rms_amplitude the square root of the mean of the squares, of the first N
\* raw samples of the carry buffer (what it held plus the argument): a
\* window of zeros has RMS 0, a window of constant amplitude A has RMS A and
\* peak A.
C21_Amplitudes ==
    [][(ProcCalled /\ analyzer'.returned # None) =>
          LET N == analyzer.fft_size
              raw == sample_buffer[1] \o analyzer'.new_samples
              rec == analyzer'.returned[1]
              sq == rec.rms_amplitude.sqrt_of
          IN /\ \A i \in 1..N : /\ rec.peak_amplitude >= raw[i]
                                 /\ rec.peak_amplitude >= 0 - raw[i]
             /\ \E i \in 1..N : rec.peak_amplitude \in {raw[i], 0 - raw[i]}
             /\ sq[1] >= 0 /\ sq[2] > 0
             /\ sq[1] * N = sq[2] * SumOfSquares(raw, N)
             /\ (\A i \in 1..N : raw[i] = 0) => sq = <<0, 1>>
             /\ \A A \in {a \in ProcSamples : a >= 0} :
                   (\A i \in 1..N : raw[i] \in {A, 0 - A}) =>
                       /\ sq = <<A * A, 1>>
                       /\ rec.peak_amplitude = A]_vars

\* An analyzer of size 3 was given a window of three samples -1 and
\* returned a record with peak 1 and RMS 1.
C21_Witness ==
    /\ analyzer.fft_size = 3
    /\ analyzer.new_samples = <<0 - 1, 0 - 1, 0 - 1>>
    /\ analyzer.supplied = 3
    /\ analyzer.returned # None
    /\ analyzer.returned[1].peak_amplitude = 1
    /\ analyzer.returned[1].rms_amplitude = [sqrt_of |-> <<1, 1>>]

\* C22: the record's frequency_magnitudes[k], for k = 0 .. N/2, is the norm
\* of bin k of the forward transform of the first N samples of the carry
\* buffer, each multiplied by its Hann coefficient, divided by N.
C22_MagnitudesOfTransform ==
    [][(ProcCalled /\ analyzer'.returned # None) =>
          LET N == analyzer.fft_size
              raw == sample_buffer[1] \o analyzer'.new_samples
              windowed == [i \in 1..N |-> raw[i] * hann_window(N)[i]]
              rec == analyzer'.returned[1]
          IN \A k \in 0..(N \div 2) :
                rec.frequency_magnitudes[k + 1] =
                    Magnitude([domain |-> "freq", re |-> windowed], k, N)]_vars

\* C23: for a source of C > 1 channels the worker hands to process_samples
\* the samples at indices 0, C, 2C, ... of the received chunk, in order; for
\* C = 1 it hands over the chunk unchanged.
C23_Downmix ==
    [][MixFeed =>
          LET samples == Head(chunkQ[1])
              C == source_channels[1]
              n == (Len(samples) + C - 1) \div C
          IN /\ C = 1 => /\ analyzer'.new_samples = samples
                         /\ analyzer'.supplied = Len(samples)
             /\ C > 1 => /\ analyzer'.new_samples =
                               [i \in 1..n |-> samples[(i - 1) * C + 1]]
                         /\ analyzer'.supplied = n]_vars

\* Three samples were handed over from a chunk of a two-channel source.
C23_Witness ==
    /\ source_channels[1] = 2
    /\ chunkQ[1] = <<>>
    /\ analyzer.new_samples = <<0 - 1, 0, 1>>
    /\ analyzer.supplied = 3

\* C24: for a source of C > 1 channels every sample the worker hands to
\* process_samples is a sample of the first channel: counted from 0 its
\* position in the stream is a multiple of C (a sample is its position
\* counted from 1).
C24_FirstChannelOnly ==
    [][\A s \in Slots :
          (WorkerRecv(s) /\ chunkQ[s] # <<>> /\ source_channels[s] > 1) =>
             LET input == WorkerInput(Head(chunkQ[s]), source_channels[s]) IN
             input # None =>
                \A i \in 1..Len(input[1]) :
                   (input[1][i] - 1) % source_channels[s] = 0]_vars

\* C25: whenever a sink exists its volume is the engine's stored volume,
\* whatever calls were made: set_output_volume reaches the active sink and a
\* new sink is given the stored volume.
C25_SinkVolumeIsStored ==
    sink # NoSlot => sinkVolume = current_volume

\* The volume of a playing session was set to half.
C25_Witness ==
    /\ sink # NoSlot
    /\ state = "Playing"
    /\ ret.op = "set_output_volume"
    /\ current_volume = 1
    /\ sinkVolume = 1

\* C26: a call of next() that brings the buffer to its capacity makes one
\* try_send of the chunk (the last capacity samples of the stream) and
\* empties the buffer whether the chunk was queued, met a full channel or
\* met a disconnected one; a chunk that was not queued is gone. Any other
\* call that returns a sample only appends it. So after a call that
\* returned a sample the buffer is shorter than the capacity.
C26_FullBufferSentAndCleared ==
    [][(TapNext /\ tapPos[1] < srcLen[1]) =>
          LET sample == tapPos[1] + 1
              cap == capacity[1]
              chunk == [i \in 1..cap |-> sample - cap + i]
          IN /\ Len(buffer'[1]) < cap
             /\ Len(buffer[1]) + 1 = cap =>
                   /\ TapResult.op = "try_send"
                   /\ buffer'[1] = <<>>
                   /\ chunkQ'[1] = IF ChanStatus(1) = "room"
                                      THEN Append(chunkQ[1], chunk)
                                      ELSE chunkQ[1]
             /\ Len(buffer[1]) + 1 # cap =>
                   /\ TapResult.op = "none"
                   /\ buffer'[1] = Append(buffer[1], sample)
                   /\ chunkQ'[1] = chunkQ[1]]_vars

\* With chunks of 2 samples the chunk of samples 3 and 4 met a channel
\* still full of the first chunk and was dropped; sample 5 is buffered.
C26_Witness ==
    /\ capacity[1] = 2
    /\ tapPos[1] = 5
    /\ chunkQ[1] = << <<1, 2>> >>
    /\ buffer[1] = <<5>>
    /\ WorkerRunning(1)

\* C27: at the top of every iteration the worker tests the stop channel
\* without waiting: with a stop message queued or the stop sender dropped it
\* leaves the loop, taking nothing from the chunk channel; otherwise it goes
\* on to the receive. A chunk is only taken by the receive, which leads back
\* to the test, and a stop signal stays until the worker has left: so after
\* a stop signal the worker takes at most the chunk of the receive it was in.
C27_StopCheckFirst ==
    [][\A s \in Slots :
          LET stopped == stopMsgs[s] > 0 \/ stop_signal_sender # s IN
          /\ wpc[s] = "check" => ENABLED WorkerCheckStop(s)
          /\ (wpc[s] = "check" /\ wpc'[s] # "check") =>
                /\ stopped => /\ wpc'[s] = "done"
                              /\ sample_buffer'[s] = sample_buffer[s]
                              /\ resultQ' = resultQ
                /\ ~stopped => /\ wpc'[s] = "recv"
                               /\ chunkQ'[s] = chunkQ[s]
          /\ (wpc[s] = "recv" /\ wpc'[s] # "recv") =>
                wpc'[s] \in {"check", "done"}
          /\ (WorkerRunning(s) /\ sample_buffer'[s] # sample_buffer[s]) =>
                wpc[s] = "recv"
          /\ (stopped /\ WorkerRunning(s) /\ wpc'[s] # "done") =>
                (stopMsgs'[s] > 0 \/ stop_signal_sender' # s)]_vars

\* The worker of a finished one-sample session has left its loop without
\* having taken the final chunk: it left at the stop test, on the message
\* of the end-of-stream poll.
C27_Witness ==
    \E s \in Slots :
       /\ state = "Loaded"
       /\ sink = s
       /\ stop_signal_sender = s
       /\ srcLen[s] = 1
       /\ source_channels[s] = 1
       /\ wpc[s] = "done"
       /\ sample_buffer[s] = <<>>

\* C28: a receive that finds the chunk channel empty with its sender alive
\* (as long as playback is paused, for one) returns after its timeout and
\* the worker goes back to the stop test; with the channel empty and the
\* sender gone it leaves the loop; the receive ends the loop in no other
\* case but a record that met a disconnected analysis channel.
C28_TimeoutLoops ==
    /\ [](\A s \in Slots : (wpc[s] = "recv" /\ chunkQ[s] = <<>>) =>
                               ENABLED WorkerRecv(s))
    /\ [][\A s \in Slots :
          (wpc[s] = "recv" /\ wpc'[s] # "recv") =>
                /\ (chunkQ[s] = <<>> /\ tapAlive[s]) =>
                      /\ wpc'[s] = "check"
                      /\ UNCHANGED <<chunkQ, sample_buffer, resultQ>>
                /\ (chunkQ[s] = <<>> /\ ~tapAlive[s]) => wpc'[s] = "done"
                /\ wpc'[s] = "done" =>
                      \/ chunkQ[s] = <<>> /\ ~tapAlive[s]
                      \/ chunkQ[s] # <<>> /\ ~resultRxAlive]_vars

\* A session that was paused and resumed has reached the end of its
\* source; no stop signal was given and the analysis channel is alive: the
\* worker has left its loop on the disconnected chunk channel.
C28_Witness ==
    \E s \in Slots :
       /\ state = "Playing"
       /\ ret.op = "resume_playback"
       /\ ret.pre = "Paused"
       /\ sink = s
       /\ stop_signal_sender = s
       /\ resultRxAlive
       /\ sinkEmpty
       /\ wpc[s] = "done"

\* C29: when process_samples returns a record the worker makes one
\* try_send on the analysis channel: with room the record is queued, with
\* the channel full it is dropped, and in both cases the worker goes on to
\* the next iteration; with the channel disconnected the worker leaves the
\* loop. Without a record nothing is sent. The receive step never waits for
\* the analysis channel.
C29_ResultSend ==
    /\ [](\A s \in Slots : (wpc[s] = "recv" /\ chunkQ[s] # <<>>) =>
                               ENABLED WorkerRecv(s))
    /\ [][\A s \in Slots :
          (wpc[s] = "recv" /\ wpc'[s] # "recv" /\ chunkQ[s] # <<>>) =>
                LET input == WorkerInput(Head(chunkQ[s]), source_channels[s])
                    produced == /\ input # None
                                /\ Len(sample_buffer[s]) + Len(input[1])
                                      >= DEFAULT_FFT_SIZE
                IN /\ (produced /\ resultRxAlive
                         /\ resultQ < AnalysisChannelCap) =>
                         (resultQ' = resultQ + 1 /\ wpc'[s] = "check")
                   /\ (produced /\ resultRxAlive
                         /\ resultQ = AnalysisChannelCap) =>
                         (resultQ' = resultQ /\ wpc'[s] = "check")
                   /\ (produced /\ ~resultRxAlive) => wpc'[s] = "done"
                   /\ ~produced =>
                         (resultQ' = resultQ /\ wpc'[s] = "check")]_vars

\* The reader of the analysis channel is gone and the worker of a session
\* that is still playing, with samples left and no stop signal given, has
\* left its loop: its record met the disconnected channel.
C29_Witness ==
    \E s \in Slots :
       /\ state = "Playing"
       /\ sink = s
       /\ stop_signal_sender = s
       /\ ~sinkEmpty
       /\ tapAlive[s]
       /\ ~resultRxAlive
       /\ wpc[s] = "done"

\* C30: the teardown first takes and drops the sink, keeping stop sender,
\* handle and state; then takes the stop sender and sends the stop message,
\* keeping handle and state; then joins the worker of the handle, and only
\* the step in which the join has returned sets the state to Idle: the state
\* does not change at any earlier point of the teardown and the joined
\* worker has finished when it does.
C30_TeardownOrder ==
    [][/\ (cpc = "td_sink" /\ cpc' # cpc) =>
             /\ cpc' = "td_signal"
             /\ sink' = NoSlot
             /\ UNCHANGED <<state, stop_signal_sender,
                            processing_thread_handle, wpc, stopMsgs>>
       /\ (cpc = "td_signal" /\ cpc' # cpc) =>
             /\ cpc' = "td_join"
             /\ sink = NoSlot
             /\ stop_signal_sender' = NoSlot
             /\ (stop_signal_sender # NoSlot
                   /\ WorkerRunning(stop_signal_sender)) =>
                   stopMsgs'[stop_signal_sender]
                      = stopMsgs[stop_signal_sender] + 1
             /\ UNCHANGED <<state, sink, processing_thread_handle, wpc>>
       /\ (cpc = "td_join" /\ cpc' # cpc) =>
             /\ cpc' \in {"load_body", "dropped"}
             /\ sink = NoSlot /\ stop_signal_sender = NoSlot
             /\ processing_thread_handle # NoSlot =>
                   wpc[processing_thread_handle] = "done"
             /\ processing_thread_handle' = NoSlot
             /\ state' = "Idle"
             /\ \A s \in Slots : ~WorkerRunning(s)'
       /\ (cpc \in {"td_sink", "td_signal", "td_join"} /\ state' # state) =>
             (cpc = "td_join" /\ cpc' # cpc)]_vars

\* The teardown of a paused session has run to its end inside
\* load_and_play_file: the state is Idle and no worker is running.
C30_Witness ==
    /\ cpc = "load_body"
    /\ call.pre = "Paused"
    /\ ret.op = "pause_playback"
    /\ state = "Idle"
    /\ sink = NoSlot
    /\ processing_thread_handle = NoSlot
    /\ \A s \in Slots : ~WorkerRunning(s)

\* C31: whenever no method of the engine is executing, the state is Idle
\* exactly when no sink is stored: Playing, Paused and Loaded have a sink,
\* and a teardown or a load that failed to create a sink has left Idle.
C31_IdleIffNoSink ==
    cpc \in {"ready", "dropped"} => (state = "Idle" <=> sink = NoSlot)

\* A load issued on a finished (Loaded) session failed at the creation of
\* its sink: no sink is stored and the state is Idle.
C31_Witness ==
    /\ LoadReturned({"sink"})
    /\ ret.pre = "Loaded"
    /\ state = "Idle"
    /\ sink = NoSlot

\* C32: a call of check_and_update_finished_state never takes the state to
\* Idle: when it finds no sink the state is neither Playing nor Paused; and
\* a call made in state Idle, Loaded or Paused changes no field of the
\* engine and nothing of the sink or the worker, whether the sink is empty
\* or not.
C32_PollFrame ==
    [][check_and_update_finished_state =>
          /\ state' = "Idle" => state = "Idle"
          /\ sink = NoSlot => state \notin {"Playing", "Paused"}
          /\ state \in {"Idle", "Loaded", "Paused"} =>
                UNCHANGED <<engineVars, sinkVars, workerVars>>]_vars

\* The poll has returned from a call on a paused session whose sink was
\* empty: the session is still Paused.
C32_Witness ==
    /\ ret.op = "check_and_update_finished_state"
    /\ ret.pre = "Paused"
    /\ state = "Paused"
    /\ sink # NoSlot
    /\ sinkEmpty
    /\ sinkPaused

\* C33: a load_and_play_file that fails leaves the recorded path as it was
\* when the call was made: no step of a call that is rejected or that ends
\* in a failure (open, decode, thread spawn, sink creation) changes
\* current_file_path.
C33_FailedLoadKeepsPath ==
    [][/\ (cpc = "ready" /\ ret'.op = "load"
             /\ ret'.result = "invalid_input") =>
             UNCHANGED current_file_path
       /\ (call.op = "load" /\ cpc \in {"td_sink", "td_signal", "td_join"}) =>
             UNCHANGED current_file_path
       /\ (cpc = "load_body" /\ cpc' = "ready"
             /\ ret'.result \in LoadFailures) =>
             UNCHANGED current_file_path]_vars

\* C34: when load_and_play_file has failed at the creation of its sink, the
\* handle and the stop sender of the worker it spawned are stored in the
\* engine and no broadcaster feeds that worker; the worker leaves its loop
\* in the end, on the disconnected chunk channel; and the join of the next
\* teardown finds it finished and reaps it.
C34_SinkFailureWorkerReaped ==
    /\ [](LoadReturned({"sink"}) =>
             /\ processing_thread_handle # NoSlot
             /\ stop_signal_sender = processing_thread_handle
             /\ wpc[processing_thread_handle] # "none"
             /\ ~tapAlive[processing_thread_handle]
             /\ sink = NoSlot)
    /\ LoadReturned({"sink"})
          ~> (\/ processing_thread_handle = NoSlot
              \/ ~WorkerRunning(processing_thread_handle))
    /\ [][(cpc = "td_join" /\ cpc' # cpc /\ processing_thread_handle # NoSlot)
             => /\ wpc[processing_thread_handle] = "done"
                /\ wpc'[processing_thread_handle] = "none"
                /\ processing_thread_handle' = NoSlot]_vars

\* The load has failed at its sink and the worker it spawned has already
\* left its loop, with no stop message sent; handle and stop sender are
\* still stored.
C34_Witness ==
    \E s \in Slots :
       /\ LoadReturned({"sink"})
       /\ processing_thread_handle = s
       /\ stop_signal_sender = s
       /\ wpc[s] = "done"

\* C35: every call of stop_playback_and_processing returns: whatever the
\* audio path and the worker do meanwhile (a paused sink, a full chunk
\* channel, a full analysis channel, a stop message already sent by the
\* poll), the join comes back and the call ends, given that the worker is
\* scheduled.
C35_TeardownTerminates ==
    (cpc \in {"td_sink", "td_signal", "td_join"})
       ~> (cpc \in {"load_body", "dropped"})

\* The engine was dropped while paused, with the analysis channel full and
\* never drained: the teardown has ended and no worker is running.
C35_Witness ==
    /\ cpc = "dropped"
    /\ ret.op = "drop"
    /\ ret.pre = "Paused"
    /\ resultRxAlive
    /\ resultQ = AnalysisChannelCap
    /\ processing_thread_handle = NoSlot
    /\ \A s \in Slots : wpc[s] = "none"

\* The final send of the broadcaster of the playing sink would wait: the
\* source has ended, samples are left in the buffer and the chunk channel
\* is full.
TapBlocked ==
    /\ sink # NoSlot
    /\ tapAlive[sink]
    /\ next(srcLen[sink], tapPos[sink], buffer[sink], capacity[sink],
            ChanStatus(sink)).blocked

\* C36: the blocking send at the end of the stream waits only while the
\* worker of the session is alive and the chunk channel is full, and it does
\* not wait for ever: the live worker takes a chunk, which makes room, or
\* the worker has left, which makes the send fail at once.
C36_FinalSendCompletes ==
    /\ [](TapBlocked => /\ WorkerRunning(sink)
                        /\ Len(chunkQ[sink]) = ChunkChannelCap)
    /\ TapBlocked ~> ~TapBlocked
    /\ [][(TapBlocked /\ ~TapBlocked' /\ sink' = sink) =>
             \/ WorkerRunning(sink) /\ chunkQ'[sink] = Tail(chunkQ[sink])
             \/ ~WorkerRunning(sink)']_vars

\* The source of three samples has ended with its last sample in the
\* buffer while the first chunk is still queued: the final send is waiting
\* for the worker, which is about to receive.
C36_Witness ==
    /\ TapBlocked
    /\ ~sinkPaused
    /\ srcLen[sink] = 3
    /\ buffer[sink] = <<3>>
    /\ chunkQ[sink] = << <<1, 2>> >>
    /\ wpc[sink] = "recv"

\* C37: every chunk next() hands to the channel is the run of source
\* samples that follows the chunk handed over before it, in source order:
\* a chunk handed over with a sample still returned holds exactly
\* buffer_capacity samples, the chunk of the end of the stream holds the
\* 1 to buffer_capacity - 1 samples that are left and ends with the last
\* sample of the source, and a chunk that finds room is queued behind the
\* earlier ones. Samples not yet handed over are in the buffer. So the
\* chunks handed over, in order, add up to the source's sample sequence.
C37_ChunksPartitionSource ==
    /\ [](/\ buffer[1] = [i \in 1..Len(buffer[1]) |->
                             tapPos[1] - Len(buffer[1]) + i]
          /\ Len(buffer[1]) < capacity[1]
          /\ buffer[1] # <<>> => (tapPos[1] - Len(buffer[1])) % capacity[1] = 0
          /\ Len(forwarded[1]) <= tapPos[1] =>
                Len(buffer[1]) = tapPos[1] % capacity[1])
    /\ [][(TapNext /\ TapResult.op # "none") =>
             LET chunk == IF TapResult.item = None THEN buffer[1]
                          ELSE Append(buffer[1], TapResult.item[1])
                 n == Len(chunk)
                 first == tapPos'[1] - n + 1
             IN /\ chunk = [i \in 1..n |-> first + i - 1]
                /\ (first - 1) % capacity[1] = 0
                /\ TapResult.op = "try_send" => n = capacity[1]
                /\ TapResult.op = "send" =>
                      /\ n \in 1..(capacity[1] - 1)
                      /\ tapPos'[1] = srcLen[1]
                /\ buffer'[1] = <<>>
                /\ chunkQ'[1] = IF ChanStatus(1) = "room"
                                   THEN Append(chunkQ[1], chunk)
                                   ELSE chunkQ[1]]_vars

\* A source of five samples was pulled to its end through a buffer of
\* capacity 2 while the receiver kept up: two chunks of 2 samples were taken
\* and the final chunk, the fifth sample, is queued.
C37_Witness ==
    /\ capacity[1] = 2
    /\ srcLen[1] = 5
    /\ tapPos[1] = 5
    /\ Len(forwarded[1]) = 6
    /\ buffer[1] = <<>>
    /\ chunkQ[1] = << <<5>> >>
    /\ WorkerRunning(1)

\* C38: in the engine every chunk queued for a worker holds at most
\* SAMPLES_PER_CHUNK = DEFAULT_FFT_SIZE = N samples, and the carry-over
\* buffer of the worker's analyzer holds fewer than N samples whenever the
\* worker is not inside process_samples, however long the stream.
C38_CarryBelowWindow ==
    /\ SAMPLES_PER_CHUNK = DEFAULT_FFT_SIZE
    /\ \A s \in Slots :
          /\ \A i \in 1..Len(chunkQ[s]) :
                Len(chunkQ[s][i]) \in 1..SAMPLES_PER_CHUNK
          /\ Len(sample_buffer[s]) < DEFAULT_FFT_SIZE

\* The worker of a two-channel session has processed a full chunk and is
\* back at the stop test with a carry of N - 1 samples.
C38_Witness ==
    \E s \in Slots :
       /\ sink = s
       /\ source_channels[s] = 2
       /\ tapPos[s] >= SAMPLES_PER_CHUNK
       /\ wpc[s] = "check"
       /\ chunkQ[s] = <<>>
       /\ Len(sample_buffer[s]) = DEFAULT_FFT_SIZE - 1

====
